---- MODULE Spec2Model ----
(***************************************************************************)
(* mpegflow: extraction of per-frame motion vectors from a video, written  *)
(* to stdout either raw or arranged in a grid (src/mpegflow.cpp).          *)
(*                                                                         *)
(* The decoder front end (for_each_frame) is the environment: it delivers  *)
(* frames (pts, vector list) to main's frameCallback and ends with either  *)
(* end-of-stream or an error code.  The model follows the dispatcher       *)
(* (frameCallback), the raw emitter (output_vectors_raw) and the arranged  *)
(* pipeline (output_vectors_std, FrameInfo).                               *)
(***************************************************************************)
EXTENDS Integers, Sequences, FiniteSets, TLC

VARIABLES
    pc,                \* "loop" (decode loop running), "exit0", "exit1"
    ARG_OUTPUT_RAW_MOTION_VECTORS,
    ARG_FORCE_GRID_8,
    ARG_OUTPUT_OCCUPANCY,
    ARG_QUIET,
    ffmpeg_frameWidth,
    ffmpeg_frameHeight,
    frameIndex,        \* main: int frameIndex
    pts,               \* main: int64_t pts (uninitialised until the first frame)
    prev_pts,          \* main: int64_t prev_pts = -1
    pictType,          \* main: char pictType (uninitialised until the first frame)
    motionVectors,     \* main: std::vector<AVMotionVector> motionVectors
    prev,              \* output_vectors_std: static std::vector<FrameInfo> prev
    FirstPts,          \* PrintIfNotPrinted: static int64_t FirstPts = -1
    stdout,            \* the blocks written to stdout, in order
    stderr,            \* the lines written to stderr by main, in order
    fwd,               \* log of the calls frameCallback made to an emitter
    curInCall          \* output_vectors_std: FrameInfo cur while a call is
                       \* followed step by step (<<>> when no call is)

vars == <<pc, ARG_OUTPUT_RAW_MOTION_VECTORS, ARG_FORCE_GRID_8,
          ARG_OUTPUT_OCCUPANCY, ARG_QUIET, ffmpeg_frameWidth,
          ffmpeg_frameHeight, frameIndex, pts, prev_pts, pictType,
          motionVectors, prev, FirstPts, stdout, stderr, fwd, curInCall>>

(***************************************************************************)
(* Bounds of the model.                                                    *)
(***************************************************************************)
MaxFrames == 4         \* frames the decoder delivers before it must stop
NegPts == 2            \* the decoder delivers pts values down to -NegPts
MaxPts == 1            \* largest pts the decoder delivers

PtsSet == (-NegPts)..MaxPts

(***************************************************************************)
(* Program constants.                                                      *)
(***************************************************************************)
MAX_GRID_SIZE == 512

\* size_t arithmetic is modulo 2^w.  Every operand of the model is far below
\* 2^16, so the outcome of each min/max below is the same for w = 24 as for
\* the build's w = 32 or 64; 24 keeps the values inside TLC's integers.
SizeMod == 2^24

ToSizeT(x) == x % SizeMod

Min(a, b) == IF a < b THEN a ELSE b
Max(a, b) == IF a > b THEN a ELSE b

\* Variant: division that rounds down (toward minus infinity).
FloorDiv(a, b) == a \div b

\* C++ integer division of an int by a positive int: truncation toward zero.
TruncDiv(a, b) == IF a >= 0 THEN a \div b ELSE -((-a) \div b)

(***************************************************************************)
(* Inputs: the motion vectors and vector lists the decoder delivers.       *)
(***************************************************************************)
MV(sx, sy, dxx, dyy) == [src_x |-> sx, src_y |-> sy, dst_x |-> dxx, dst_y |-> dyy]

vA == MV(3, 1, 0, 0)       \* displacement (-3, -1), lands at pixel (0, 0)
vB == MV(9, 8, 8, 8)       \* displacement (-1,  0), lands at pixel (8, 8)

VecLists == {<<>>, <<vA>>, <<vA, vB>>}

\* Frame sizes (width, height) of the video stream.
FrameSizes == {<<16, 16>>}

\* (raw, grid8, occupancy, quiet) combinations of command-line flags.
Configs == {<<TRUE, FALSE, FALSE, FALSE>>,
            <<FALSE, FALSE, FALSE, FALSE>>,
            <<FALSE, TRUE, TRUE, TRUE>>}

(***************************************************************************)
(* FrameInfo                                                               *)
(***************************************************************************)
Cells(shape) == (0..(shape[1] - 1)) \X (0..(shape[2] - 1))

\* FrameInfo::FrameInfo(): zeroed arrays, Empty, not Printed.
NewFrameInfo(shape) ==
    [GridStep |-> 0, Shape |-> shape,
     dx |-> [c \in Cells(shape) |-> 0],
     dy |-> [c \in Cells(shape) |-> 0],
     occupancy |-> [c \in Cells(shape) |-> 0],
     Pts |-> -1, FrameIndex |-> -1, PictType |-> "?", Origin |-> "",
     Empty |-> TRUE, Printed |-> FALSE]

\* gridStep and shape of output_vectors_std.
GridStepOf(grid8) == IF grid8 THEN 8 ELSE 16

ShapeOf(h, w, g) == <<Min(h \div g, MAX_GRID_SIZE), Min(w \div g, MAX_GRID_SIZE)>>

\* i_clipped / j_clipped: the coordinate is converted to size_t before the
\* division, and n - 1 is computed in size_t.
Clipped(dst, g, n) == Max(0, Min(ToSizeT(dst) \div g, ToSizeT(n - 1)))

\* The cell (i_clipped, j_clipped) the binning loop writes for vector mv.
BinCell(f, mv) ==
    <<Clipped(mv.dst_y, f.GridStep, f.Shape[1]),
      Clipped(mv.dst_x, f.GridStep, f.Shape[2])>>

\* Variant: the binning loop stores the displacement but leaves the
\* occupancy tag alone.
BinOneNoOccupancy(f, mv) ==
    LET i == Clipped(mv.dst_y, f.GridStep, f.Shape[1])
        j == Clipped(mv.dst_x, f.GridStep, f.Shape[2])
        c == <<i, j>>
    IN  IF c \in Cells(f.Shape)
        THEN [f EXCEPT !.Empty = FALSE,
                       !.dx = [@ EXCEPT ![c] = mv.dst_x - mv.src_x],
                       !.dy = [@ EXCEPT ![c] = mv.dst_y - mv.src_y]]
        ELSE [f EXCEPT !.Empty = FALSE]

\* One iteration of the binning loop.  The arrays are MAX_GRID_SIZE square;
\* only the cells inside Shape are ever read, so a write outside Shape (but
\* inside the array) changes nothing the program can observe.
BinOne(f, mv) ==
    LET i == Clipped(mv.dst_y, f.GridStep, f.Shape[1])
        j == Clipped(mv.dst_x, f.GridStep, f.Shape[2])
        c == <<i, j>>
        mvdx == mv.dst_x - mv.src_x
        mvdy == mv.dst_y - mv.src_y
    IN  IF c \in Cells(f.Shape)
        THEN [f EXCEPT !.Empty = FALSE,
                       !.dx = [@ EXCEPT ![c] = mvdx],
                       !.dy = [@ EXCEPT ![c] = mvdy],
                       !.occupancy = [@ EXCEPT ![c] = 1]]
        ELSE [f EXCEPT !.Empty = FALSE]

RECURSIVE Bin(_, _)
Bin(f, mvs) == IF mvs = <<>> THEN f ELSE Bin(BinOne(f, Head(mvs)), Tail(mvs))

\* InterpolateFlow(prev, next), called on the middle frame m.
InterpolateFlow(m, p, n) ==
    [m EXCEPT !.dx = [c \in Cells(m.Shape) |-> TruncDiv(p.dx[c] + n.dx[c], 2)],
              !.dy = [c \in Cells(m.Shape) |-> TruncDiv(p.dy[c] + n.dy[c], 2)],
              !.Empty = FALSE,
              !.Origin = "interpolated"]

\* The interior cells in the order one sweep of the fill visits them
\* (i = 1 .. Shape.first - 2 outside, j = 1 .. Shape.second - 2 inside).
SweepCells(shape) ==
    LET nr == Max(shape[1] - 2, 0)
        nc == Max(shape[2] - 2, 0)
    IN  [k \in 1..(nr * nc) |-> <<1 + ((k - 1) \div nc), 1 + ((k - 1) % nc)>>]

\* Variant: a cell is filled as soon as one neighbour of a pair is occupied.
FillCellEitherSide(f, c) ==
    LET l == <<c[1], c[2] - 1>>
        r == <<c[1], c[2] + 1>>
        u == <<c[1] - 1, c[2]>>
        d == <<c[1] + 1, c[2]>>
    IN  IF f.occupancy[c] # 0 THEN f
        ELSE IF f.occupancy[l] # 0 \/ f.occupancy[r] # 0
        THEN [f EXCEPT !.dx = [@ EXCEPT ![c] = TruncDiv(f.dx[l] + f.dx[r], 2)],
                       !.dy = [@ EXCEPT ![c] = TruncDiv(f.dy[l] + f.dy[r], 2)],
                       !.occupancy = [@ EXCEPT ![c] = 2]]
        ELSE IF f.occupancy[u] # 0 \/ f.occupancy[d] # 0
        THEN [f EXCEPT !.dx = [@ EXCEPT ![c] = TruncDiv(f.dx[u] + f.dx[d], 2)],
                       !.dy = [@ EXCEPT ![c] = TruncDiv(f.dy[u] + f.dy[d], 2)],
                       !.occupancy = [@ EXCEPT ![c] = 2]]
        ELSE f

\* Variant: the left/right branch tags the left neighbour instead of the cell.
FillCellMarksLeft(f, c) ==
    LET l == <<c[1], c[2] - 1>>
        r == <<c[1], c[2] + 1>>
        u == <<c[1] - 1, c[2]>>
        d == <<c[1] + 1, c[2]>>
    IN  IF f.occupancy[c] # 0 THEN f
        ELSE IF f.occupancy[l] # 0 /\ f.occupancy[r] # 0
        THEN [f EXCEPT !.dx = [@ EXCEPT ![c] = TruncDiv(f.dx[l] + f.dx[r], 2)],
                       !.dy = [@ EXCEPT ![c] = TruncDiv(f.dy[l] + f.dy[r], 2)],
                       !.occupancy = [@ EXCEPT ![l] = 2]]
        ELSE IF f.occupancy[u] # 0 /\ f.occupancy[d] # 0
        THEN [f EXCEPT !.dx = [@ EXCEPT ![c] = TruncDiv(f.dx[u] + f.dx[d], 2)],
                       !.dy = [@ EXCEPT ![c] = TruncDiv(f.dy[u] + f.dy[d], 2)],
                       !.occupancy = [@ EXCEPT ![c] = 2]]
        ELSE f

\* The body of the fill's inner loop at cell c: left/right first, else
\* top/bottom; the arrays are updated in place.
FillCell(f, c) ==
    LET l == <<c[1], c[2] - 1>>
        r == <<c[1], c[2] + 1>>
        u == <<c[1] - 1, c[2]>>
        d == <<c[1] + 1, c[2]>>
    IN  IF f.occupancy[c] # 0 THEN f
        ELSE IF f.occupancy[l] # 0 /\ f.occupancy[r] # 0
        THEN [f EXCEPT !.dx = [@ EXCEPT ![c] = TruncDiv(f.dx[l] + f.dx[r], 2)],
                       !.dy = [@ EXCEPT ![c] = TruncDiv(f.dy[l] + f.dy[r], 2)],
                       !.occupancy = [@ EXCEPT ![c] = 2]]
        ELSE IF f.occupancy[u] # 0 /\ f.occupancy[d] # 0
        THEN [f EXCEPT !.dx = [@ EXCEPT ![c] = TruncDiv(f.dx[u] + f.dx[d], 2)],
                       !.dy = [@ EXCEPT ![c] = TruncDiv(f.dy[u] + f.dy[d], 2)],
                       !.occupancy = [@ EXCEPT ![c] = 2]]
        ELSE f

RECURSIVE Sweep(_, _)
Sweep(f, cells) == IF cells = <<>> THEN f ELSE Sweep(FillCell(f, Head(cells)), Tail(cells))

\* FillInSomeMissingVectorsInGrid8: two sweeps (k = 0, 1).
FillInSomeMissingVectorsInGrid8(f) ==
    Sweep(Sweep(f, SweepCells(f.Shape)), SweepCells(f.Shape))

(***************************************************************************)
(* Emission.  An emitter state is a record [FirstPts, stdout]; printing a  *)
(* frame returns the frame and the emitter state after the call.           *)
(***************************************************************************)
\* The block printf writes for frame f.  The occupancy rows are on stdout
\* only under --occupancy; the header's shape says which.
Block(f, first) ==
    [output_type |-> "arranged",
     pts |-> f.Pts - first,
     frame_index |-> f.FrameIndex,
     pict_type |-> f.PictType,
     shape |-> <<(IF ARG_OUTPUT_OCCUPANCY THEN 3 ELSE 2) * f.Shape[1], f.Shape[2]>>,
     origin |-> f.Origin,
     dx |-> f.dx, dy |-> f.dy, occupancy |-> f.occupancy]

\* Variant: printing without the Printed guard.
PrintAlways(f, em) ==
    LET first == IF em.FirstPts = -1 THEN f.Pts ELSE em.FirstPts
    IN  [f |-> [f EXCEPT !.Printed = TRUE],
         em |-> [FirstPts |-> first,
                 stdout |-> Append(em.stdout, Block(f, first))]]

PrintIfNotPrinted(f, em) ==
    IF f.Printed
    THEN [f |-> f, em |-> em]
    ELSE LET first == IF em.FirstPts = -1 THEN f.Pts ELSE em.FirstPts
         IN  [f |-> [f EXCEPT !.Printed = TRUE],
              em |-> [FirstPts |-> first,
                      stdout |-> Append(em.stdout, Block(f, first))]]

\* Variant: the loop stops one element early (i < prev.size() - 1).
RECURSIVE PrintAllButLast(_, _)
PrintAllButLast(fs, em) ==
    IF Len(fs) <= 1 THEN [fs |-> fs, em |-> em]
    ELSE LET one == PrintIfNotPrinted(Head(fs), em)
             rest == PrintAllButLast(Tail(fs), one.em)
         IN  [fs |-> <<one.f>> \o rest.fs, em |-> rest.em]

\* for(i = 0; i < prev.size(); i++) prev[i].PrintIfNotPrinted();
\* returns the frames after the loop and the emitter state.
RECURSIVE PrintAll(_, _)
PrintAll(fs, em) ==
    IF fs = <<>> THEN [fs |-> <<>>, em |-> em]
    ELSE LET one == PrintIfNotPrinted(Head(fs), em)
             rest == PrintAll(Tail(fs), one.em)
         IN  [fs |-> <<one.f>> \o rest.fs, em |-> rest.em]

\* Variant: the test looks at the back of the buffer instead of the front.
IsCaseABack(fs) == Len(fs) = 2 /\ fs[2].Empty = FALSE

\* Variant: the test does not look at the front of the buffer.
IsCaseAAnyFront(fs) == Len(fs) = 2

\* The test that selects the interpolation branch.
IsCaseA(fs) == Len(fs) = 2 /\ fs[1].Empty = FALSE

\* Variant: the buffer is not cleared.
PrevKept(fs) == fs

\* prev.clear()
PrevClear(fs) == <<>>

\* cur as declared and initialised by output_vectors_std.
ConstructCur(fi, p, pt) ==
    LET g == GridStepOf(ARG_FORCE_GRID_8)
    IN  [NewFrameInfo(ShapeOf(ffmpeg_frameHeight, ffmpeg_frameWidth, g))
           EXCEPT !.FrameIndex = fi, !.Pts = p, !.Origin = "video",
                  !.PictType = pt, !.GridStep = g]

\* cur as built by output_vectors_std before it looks at prev.
MakeCur(fi, p, pt, mvs) ==
    LET f1 == Bin(ConstructCur(fi, p, pt), mvs)
    IN  IF f1.GridStep = 8 THEN FillInSomeMissingVectorsInGrid8(f1) ELSE f1

\* Variant: cur is pushed without having been printed.
EmitWindowNoCur(fs, cur, em) ==
    LET a == IF IsCaseA(fs)
             THEN LET m == PrintIfNotPrinted(InterpolateFlow(fs[2], fs[1], cur), em)
                  IN  [fs |-> <<fs[1], m.f>>, em |-> m.em]
             ELSE PrintAll(fs, em)
    IN  [fs |-> PrevClear(a.fs), cur |-> cur, em |-> a.em]

\* Variant: cur is printed before the frames of the buffer.
EmitWindowCurFirst(fs, cur, em) ==
    LET c == PrintIfNotPrinted(cur, em)
        a == IF IsCaseA(fs)
             THEN LET m == PrintIfNotPrinted(InterpolateFlow(fs[2], fs[1], cur), c.em)
                  IN  [fs |-> <<fs[1], m.f>>, em |-> m.em]
             ELSE PrintAll(fs, c.em)
    IN  [fs |-> PrevClear(a.fs), cur |-> c.f, em |-> a.em]

\* The branch taken for a real frame that carries vectors: emit from prev,
\* clear it, emit cur.  Returns the new prev (before the final push_back)
\* and cur after printing.
EmitWindow(fs, cur, em) ==
    LET a == IF IsCaseA(fs)
             THEN LET m == PrintIfNotPrinted(InterpolateFlow(fs[2], fs[1], cur), em)
                  IN  [fs |-> <<fs[1], m.f>>, em |-> m.em]
             ELSE PrintAll(fs, em)
        c == PrintIfNotPrinted(cur, a.em)
    IN  [fs |-> PrevClear(a.fs), cur |-> c.f, em |-> c.em]

\* Variant: a real frame takes the emitting branch whether or not it
\* carries vectors.
OutputVectorsStdNoEmptyTest(fi, p, pt, mvs) ==
    LET cur == MakeCur(fi, p, pt, mvs)
        em == [FirstPts |-> FirstPts, stdout |-> stdout]
    IN  IF fi = -1
        THEN LET r == PrintAll(prev, em)
             IN  [prev |-> Append(r.fs, cur), em |-> r.em]
        ELSE LET r == EmitWindow(prev, cur, em)
             IN  [prev |-> Append(r.fs, r.cur), em |-> r.em]

\* Variant: the frameIndex == -1 test is missing, the flush record is
\* handled like a frame.
OutputVectorsStdNoFlushTest(fi, p, pt, mvs) ==
    LET cur == MakeCur(fi, p, pt, mvs)
        em == [FirstPts |-> FirstPts, stdout |-> stdout]
    IN  IF mvs # <<>>
        THEN LET r == EmitWindow(prev, cur, em)
             IN  [prev |-> Append(r.fs, r.cur), em |-> r.em]
        ELSE [prev |-> Append(prev, cur), em |-> em]

\* output_vectors_std(frameIndex, pts, pictType, motionVectors): the values
\* of prev, FirstPts and stdout when the call returns.
OutputVectorsStd(fi, p, pt, mvs) ==
    LET cur == MakeCur(fi, p, pt, mvs)
        em == [FirstPts |-> FirstPts, stdout |-> stdout]
    IN  IF fi = -1
        THEN LET r == PrintAll(prev, em)
             IN  [prev |-> Append(r.fs, cur), em |-> r.em]
        ELSE IF mvs # <<>>
        THEN LET r == EmitWindow(prev, cur, em)
             IN  [prev |-> Append(r.fs, r.cur), em |-> r.em]
        ELSE [prev |-> Append(prev, cur), em |-> em]

\* Variant: a row is printed only when both components are non-zero.
RECURSIVE RawRowsBoth(_)
RawRowsBoth(mvs) ==
    IF mvs = <<>> THEN <<>>
    ELSE LET mv == Head(mvs)
         IN  (IF mv.dst_x - mv.src_x # 0 /\ mv.dst_y - mv.src_y # 0
              THEN <<<<mv.dst_x, mv.dst_y, mv.dst_x - mv.src_x, mv.dst_y - mv.src_y>>>>
              ELSE <<>>) \o RawRowsBoth(Tail(mvs))

\* output_vectors_raw: the header and the rows of the non-zero vectors.
RawRow(mv) == <<mv.dst_x, mv.dst_y, mv.dst_x - mv.src_x, mv.dst_y - mv.src_y>>

RECURSIVE RawRows(_)
RawRows(mvs) ==
    IF mvs = <<>> THEN <<>>
    ELSE LET mv == Head(mvs)
         IN  (IF mv.dst_x - mv.src_x # 0 \/ mv.dst_y - mv.src_y # 0
              THEN <<RawRow(mv)>> ELSE <<>>) \o RawRows(Tail(mvs))

OutputVectorsRaw(fi, p, pt, mvs) ==
    [output_type |-> "raw", pts |-> p, frame_index |-> fi, pict_type |-> pt,
     shape |-> <<Len(mvs), 4>>, rows |-> RawRows(mvs)]

(***************************************************************************)
(* main                                                                    *)
(***************************************************************************)
\* The values an uninitialised pictType may hold; once a frame has been
\* delivered it is the tag of ffmpeg_pFrame, a frame that is never decoded
\* into: '?'.
PictTypes == {"?", "I"}

Init ==
    /\ pc = "loop"
    /\ \E cfg \in Configs :
          /\ ARG_OUTPUT_RAW_MOTION_VECTORS = cfg[1]
          /\ ARG_FORCE_GRID_8 = cfg[2]
          /\ ARG_OUTPUT_OCCUPANCY = cfg[3]
          /\ ARG_QUIET = cfg[4]
    /\ \E sz \in FrameSizes :
          /\ ffmpeg_frameWidth = sz[1]
          /\ ffmpeg_frameHeight = sz[2]
    /\ frameIndex = 0
    /\ pts \in PtsSet
    /\ prev_pts = -1
    /\ pictType \in PictTypes
    /\ motionVectors = <<>>
    /\ prev = <<>>
    /\ FirstPts = -1
    /\ stdout = <<>>
    /\ stderr = <<>>
    /\ fwd = <<>>
    /\ curInCall = <<>>

Flags == <<ARG_OUTPUT_RAW_MOTION_VECTORS, ARG_FORCE_GRID_8,
           ARG_OUTPUT_OCCUPANCY, ARG_QUIET, ffmpeg_frameWidth,
           ffmpeg_frameHeight>>

\* for_each_frame decodes a frame and calls frameCallback(newPts, '?'); the
\* frame is skipped (duplicate / out-of-order pts).
FrameSkipped(newPts, mvs) ==
    /\ pc = "loop"
    /\ frameIndex < MaxFrames
    /\ newPts <= prev_pts /\ prev_pts # -1
    /\ motionVectors' = mvs
    /\ frameIndex' = frameIndex + 1
    /\ pts' = newPts
    /\ pictType' = "?"
    /\ stderr' = IF ARG_QUIET THEN stderr
                 ELSE Append(stderr, [skipping |-> frameIndex + 1, pts |-> newPts])
    /\ UNCHANGED <<pc, Flags, curInCall, prev_pts, prev, FirstPts, stdout, fwd>>

\* for_each_frame decodes a frame and calls frameCallback(newPts, '?'); the
\* frame is forwarded to the raw emitter.
FrameRaw(newPts, mvs) ==
    /\ pc = "loop"
    /\ frameIndex < MaxFrames
    /\ ~(newPts <= prev_pts /\ prev_pts # -1)
    /\ ARG_OUTPUT_RAW_MOTION_VECTORS
    /\ motionVectors' = mvs
    /\ frameIndex' = frameIndex + 1
    /\ pts' = newPts
    /\ pictType' = "?"
    /\ stdout' = Append(stdout, OutputVectorsRaw(frameIndex + 1, newPts, "?", mvs))
    /\ prev_pts' = newPts
    /\ fwd' = Append(fwd, [FrameIndex |-> frameIndex + 1, Pts |-> newPts, mvs |-> mvs])
    /\ UNCHANGED <<pc, Flags, curInCall, prev, FirstPts, stderr>>

\* ... the frame is forwarded to the arranged pipeline.
FrameStd(newPts, mvs) ==
    /\ pc = "loop"
    /\ frameIndex < MaxFrames
    /\ ~(newPts <= prev_pts /\ prev_pts # -1)
    /\ ~ARG_OUTPUT_RAW_MOTION_VECTORS
    /\ motionVectors' = mvs
    /\ frameIndex' = frameIndex + 1
    /\ pts' = newPts
    /\ pictType' = "?"
    /\ LET r == OutputVectorsStd(frameIndex + 1, newPts, "?", mvs)
       IN  /\ prev' = r.prev
           /\ FirstPts' = r.em.FirstPts
           /\ stdout' = r.em.stdout
    /\ prev_pts' = newPts
    /\ fwd' = Append(fwd, [FrameIndex |-> frameIndex + 1, Pts |-> newPts, mvs |-> mvs])
    /\ UNCHANGED <<pc, Flags, curInCall, stderr>>

\* Variant: the error path flushes the arranged pipeline before exit(1).
DecodeErrorFlushes ==
    /\ pc = "loop"
    /\ pc' = "exit1"
    /\ stderr' = Append(stderr, [error |-> "Error occurred"])
    /\ IF ARG_OUTPUT_RAW_MOTION_VECTORS
       THEN UNCHANGED <<prev, FirstPts, stdout>>
       ELSE LET r == OutputVectorsStd(-1, pts, pictType, motionVectors)
            IN  /\ prev' = r.prev
                /\ FirstPts' = r.em.FirstPts
                /\ stdout' = r.em.stdout
    /\ UNCHANGED <<Flags, curInCall, frameIndex, pts, prev_pts, pictType,
                   motionVectors, fwd>>

\* for_each_frame returns a negative code other than AVERROR_EOF: exit(1).
DecodeError ==
    /\ pc = "loop"
    /\ pc' = "exit1"
    /\ stderr' = Append(stderr, [error |-> "Error occurred"])
    /\ UNCHANGED <<Flags, curInCall, frameIndex, pts, prev_pts, pictType, motionVectors,
                   prev, FirstPts, stdout, fwd>>

\* for_each_frame returns AVERROR_EOF in raw mode: main returns.
EndOfStreamRaw ==
    /\ pc = "loop"
    /\ ARG_OUTPUT_RAW_MOTION_VECTORS
    /\ pc' = "exit0"
    /\ UNCHANGED <<Flags, curInCall, frameIndex, pts, prev_pts, pictType, motionVectors,
                   prev, FirstPts, stdout, stderr, fwd>>

\* for_each_frame returns AVERROR_EOF in arranged mode: the flush call
\* output_vectors_std(-1, pts, pictType, motionVectors), then main returns.
EndOfStreamStd ==
    /\ pc = "loop"
    /\ ~ARG_OUTPUT_RAW_MOTION_VECTORS
    /\ LET r == OutputVectorsStd(-1, pts, pictType, motionVectors)
       IN  /\ prev' = r.prev
           /\ FirstPts' = r.em.FirstPts
           /\ stdout' = r.em.stdout
    /\ pc' = "exit0"
    /\ UNCHANGED <<Flags, curInCall, frameIndex, pts, prev_pts, pictType, motionVectors,
                   stderr, fwd>>

Next ==
    \/ \E newPts \in PtsSet, mvs \in VecLists : FrameSkipped(newPts, mvs)
    \/ \E newPts \in PtsSet, mvs \in VecLists : FrameRaw(newPts, mvs)
    \/ \E newPts \in PtsSet, mvs \in VecLists : FrameStd(newPts, mvs)
    \/ DecodeError
    \/ EndOfStreamRaw
    \/ EndOfStreamStd

Spec == Init /\ [][Next]_vars

(***************************************************************************)
(* One call followed step by step.  SpecFrame takes the first frame of a   *)
(* stream through its emitter: output_vectors_raw in one step, or the      *)
(* construction of cur in output_vectors_std statement by statement        *)
(* (declaration, binning loop, first and second sweep of the fill).        *)
(***************************************************************************)
\* Destination coordinates of the decoder vectors: one per 8-pixel cell of
\* a 32 x 32 frame.
PointCoords == {0, 8, 16, 24}

\* The vector that lands at pixel (x, y); its displacement depends on the
\* point and is never (0, 0).
PointVec(x, y) == MV(x + 1 + (y \div 8), y - (x \div 8), x, y)

NonCornerPoints ==
    {q \in PointCoords \X PointCoords : ~(q[1] \in {0, 24} /\ q[2] \in {0, 24})}

RECURSIVE PointList(_)
PointList(S) ==
    IF S = {} THEN <<>>
    ELSE LET q == CHOOSE q \in S : TRUE
         IN  <<PointVec(q[1], q[2])>> \o PointList(S \ {q})

\* Lists with the cases the point lists lack: the four corners of a 3 x 3
\* grid, destinations left of / above / beyond the frame, zero
\* displacements, two vectors in one cell.
ExtraLists ==
    {<<PointVec(0, 0), PointVec(16, 0), PointVec(0, 16), PointVec(16, 16)>>,
     <<MV(-5, 9, -8, 8)>>,
     <<MV(9, -5, 8, -8)>>,
     <<MV(41, 39, 40, 40)>>,
     <<MV(8, 8, 8, 8), vA, MV(0, 16, 0, 16), vB>>,
     <<vA, MV(1, 2, 3, 3)>>}

FrameInputs == {PointList(S) : S \in SUBSET NonCornerPoints} \cup ExtraLists

\* Frame sizes of SpecFrame: 4 x 4, 3 x 3 and 1 x 1 cells at step 8; the
\* last one is narrower than the default step 16.
GridFrameSizes == {<<32, 32>>, <<24, 24>>, <<8, 8>>}

InitFrame ==
    /\ pc = "entry"
    /\ \E cfg \in Configs :
          /\ ARG_OUTPUT_RAW_MOTION_VECTORS = cfg[1]
          /\ ARG_FORCE_GRID_8 = cfg[2]
          /\ ARG_OUTPUT_OCCUPANCY = cfg[3]
          /\ ARG_QUIET = cfg[4]
    /\ \E sz \in GridFrameSizes :
          /\ ffmpeg_frameWidth = sz[1]
          /\ ffmpeg_frameHeight = sz[2]
    /\ frameIndex = 1
    /\ pts = 0
    /\ prev_pts = -1
    /\ pictType = "?"
    /\ motionVectors \in FrameInputs
    /\ prev = <<>>
    /\ FirstPts = -1
    /\ stdout = <<>>
    /\ stderr = <<>>
    /\ fwd = <<>>
    /\ curInCall = <<>>

CallFrame == <<Flags, frameIndex, pts, prev_pts, pictType, motionVectors,
               prev, FirstPts, stderr, fwd>>

\* output_vectors_raw(frameIndex, pts, pictType, motionVectors)
RawCall ==
    /\ pc = "entry"
    /\ ARG_OUTPUT_RAW_MOTION_VECTORS
    /\ stdout' = Append(stdout, OutputVectorsRaw(frameIndex, pts, pictType, motionVectors))
    /\ pc' = "rawdone"
    /\ UNCHANGED <<CallFrame, curInCall>>

\* output_vectors_std: FrameInfo cur; cur.FrameIndex = ...; cur.Shape = shape;
StdConstruct ==
    /\ pc = "entry"
    /\ ~ARG_OUTPUT_RAW_MOTION_VECTORS
    /\ curInCall' = ConstructCur(frameIndex, pts, pictType)
    /\ pc' = "constructed"
    /\ UNCHANGED <<CallFrame, stdout>>

\* Some vector's clipped index is outside the MAX_GRID_SIZE square arrays.
OutOfArray(f, mvs) ==
    \E k \in 1..Len(mvs) :
        \/ Clipped(mvs[k].dst_y, f.GridStep, f.Shape[1]) >= MAX_GRID_SIZE
        \/ Clipped(mvs[k].dst_x, f.GridStep, f.Shape[2]) >= MAX_GRID_SIZE

\* The binning loop, every index inside the arrays.
StdBin ==
    /\ pc = "constructed"
    /\ ~OutOfArray(curInCall, motionVectors)
    /\ curInCall' = Bin(curInCall, motionVectors)
    /\ pc' = "binned"
    /\ UNCHANGED <<CallFrame, stdout>>

\* The binning loop with a store outside the arrays (undefined behaviour):
\* the process dies, or it goes on with the cells of the grid as they are.
StdBinOutOfArray ==
    /\ pc = "constructed"
    /\ OutOfArray(curInCall, motionVectors)
    /\ curInCall' = Bin(curInCall, motionVectors)
    /\ pc' \in {"crashed", "binned"}
    /\ UNCHANGED <<CallFrame, stdout>>

\* FillInSomeMissingVectorsInGrid8, iteration k = 0 of the outer loop.
StdSweep1 ==
    /\ pc = "binned"
    /\ curInCall.GridStep = 8
    /\ curInCall' = Sweep(curInCall, SweepCells(curInCall.Shape))
    /\ pc' = "sweep1"
    /\ UNCHANGED <<CallFrame, stdout>>

\* FillInSomeMissingVectorsInGrid8, iteration k = 1 of the outer loop.
StdSweep2 ==
    /\ pc = "sweep1"
    /\ curInCall' = Sweep(curInCall, SweepCells(curInCall.Shape))
    /\ pc' = "sweep2"
    /\ UNCHANGED <<CallFrame, stdout>>

NextFrame ==
    \/ RawCall
    \/ StdConstruct
    \/ StdBin
    \/ StdBinOutOfArray
    \/ StdSweep1
    \/ StdSweep2

SpecFrame == InitFrame /\ [][NextFrame]_vars

(***************************************************************************)
(* Vocabulary of the properties.                                           *)
(***************************************************************************)
Arranged == ~ARG_OUTPUT_RAW_MOTION_VECTORS

\* The k-th forwarded frame carried decoder vectors.
HasVec(k) == fwd[k].mvs # <<>>

\* Positions on stdout of the blocks whose header names frame index fi.
Emissions(fi) == {n \in 1..Len(stdout) : stdout[n].frame_index = fi}

\* The k-th forwarded frame is vector-less and sits between two forwarded
\* frames that carry vectors.
Middle(k) ==
    /\ 1 < k /\ k < Len(fwd)
    /\ ~HasVec(k) /\ HasVec(k - 1) /\ HasVec(k + 1)

\* m is the integer mean of two values whose sum is s, rounded toward zero.
IsTruncHalf(s, m) ==
    \/ s >= 0 /\ 2 * m <= s /\ s < 2 * m + 2
    \/ s < 0 /\ 2 * m >= s /\ s > 2 * m - 2

AllZero(b) == \A c \in DOMAIN b.dx : b.dx[c] = 0 /\ b.dy[c] = 0

\* The decoder pts of the forwarded frame with frame index fi.
DecoderPts(fi) == fwd[CHOOSE k \in 1..Len(fwd) : fwd[k].FrameIndex = fi].Pts

\* Index in fwd of the last forwarded frame that carried vectors, 0 if none.
LastVec ==
    IF \E k \in 1..Len(fwd) : HasVec(k)
    THEN CHOOSE k \in 1..Len(fwd) : HasVec(k) /\ \A j \in (k + 1)..Len(fwd) : ~HasVec(j)
    ELSE 0

(***************************************************************************)
(* C1.  Arranged mode: no forwarded frame has its header on stdout twice,  *)
(* and once main has returned after the flush every forwarded frame has    *)
(* its header on stdout exactly once.                                      *)
(***************************************************************************)
C1_SingleEmission ==
    Arranged =>
        \A k \in 1..Len(fwd) :
            /\ Cardinality(Emissions(fwd[k].FrameIndex)) <= 1
            /\ pc = "exit0" => Cardinality(Emissions(fwd[k].FrameIndex)) = 1

\* A clean run of four forwarded frames, one of them interpolated and the
\* last one vector-less (emitted by the flush only).
C1_Witness ==
    /\ Arranged /\ pc = "exit0"
    /\ Len(fwd) = 4 /\ ~HasVec(4) /\ Middle(2)
    /\ Len(stdout) = 4
    /\ stdout[2].origin = "interpolated"

(***************************************************************************)
(* C2 (as claimed).  Arranged mode: the pts values of the headers on       *)
(* stdout are non-decreasing and the first one is 0.                       *)
(***************************************************************************)
C2_PtsMonotonic ==
    Arranged =>
        /\ Len(stdout) >= 1 => stdout[1].pts = 0
        /\ \A n \in 1..(Len(stdout) - 1) : stdout[n].pts <= stdout[n + 1].pts

(***************************************************************************)
(* C3 (as claimed).  Once a frame has been forwarded, a decoded frame      *)
(* whose pts is at most the pts of the most recently forwarded frame is    *)
(* dropped: nothing is emitted, the buffer and prev_pts stay as they are.  *)
(***************************************************************************)
C3_DuplicateDropped ==
    [][(/\ frameIndex' = frameIndex + 1
        /\ Len(fwd) >= 1
        /\ pts' <= fwd[Len(fwd)].Pts)
       => (/\ stdout' = stdout
           /\ prev' = prev
           /\ prev_pts' = prev_pts
           /\ fwd' = fwd)]_vars

(***************************************************************************)
(* C4.  Arranged mode: the frame_index values of successive headers on     *)
(* stdout are strictly increasing (decode order).                          *)
(***************************************************************************)
C4_DecodeOrder ==
    Arranged =>
        \A n \in 1..(Len(stdout) - 1) :
            stdout[n].frame_index < stdout[n + 1].frame_index

\* An interpolated block on stdout between the blocks of its neighbours,
\* after a frame that had been buffered without vectors from the start.
C4_Witness ==
    /\ Arranged
    /\ Len(stdout) >= 4
    /\ stdout[1].origin = "video" /\ AllZero(stdout[1])
    /\ stdout[3].origin = "interpolated"

(***************************************************************************)
(* C5 (as claimed).  Between calls to the arranged pipeline prev has       *)
(* length 0, 1 or 2.                                                       *)
(***************************************************************************)
C5_BufferAtMostTwo ==
    (Arranged /\ pc = "loop") => Len(prev) <= 2

(***************************************************************************)
(* C5 (amended).  Between calls prev holds the last forwarded frame that   *)
(* carried vectors (if any) followed by every vector-less frame forwarded  *)
(* after it: its length is the number of trailing vector-less frames, plus *)
(* one when some frame with vectors has been forwarded.                    *)
(***************************************************************************)
C5_BufferLength ==
    (Arranged /\ pc = "loop") =>
        /\ Len(prev) = (Len(fwd) - LastVec) + (IF LastVec > 0 THEN 1 ELSE 0)
        /\ \A i \in 1..Len(prev) :
              prev[i].FrameIndex = fwd[Len(fwd) - Len(prev) + i].FrameIndex

\* Three frames in the buffer: a frame with vectors and two without.
C5_Witness ==
    /\ Arranged /\ pc = "loop"
    /\ Len(prev) = 3
    /\ ~prev[1].Empty /\ prev[2].Empty /\ prev[3].Empty

(***************************************************************************)
(* C6.  Every block on stdout with origin=interpolated stands between two  *)
(* blocks with origin=video, and each of its dx, dy cells is the mean,     *)
(* rounded toward zero, of the same cell of those two blocks.              *)
(***************************************************************************)
C6_InterpolationIsMean ==
    Arranged =>
        \A n \in 1..Len(stdout) :
            stdout[n].origin = "interpolated" =>
                /\ 1 < n /\ n < Len(stdout)
                /\ stdout[n - 1].origin = "video"
                /\ stdout[n + 1].origin = "video"
                /\ \A c \in DOMAIN stdout[n].dx :
                      /\ IsTruncHalf(stdout[n - 1].dx[c] + stdout[n + 1].dx[c],
                                     stdout[n].dx[c])
                      /\ IsTruncHalf(stdout[n - 1].dy[c] + stdout[n + 1].dy[c],
                                     stdout[n].dy[c])

\* An interpolated block with a cell whose neighbours sum to a negative odd
\* number, where rounding toward zero and rounding down differ.
C6_Witness ==
    /\ Arranged
    /\ \E n \in 2..(Len(stdout) - 1) :
          /\ stdout[n].origin = "interpolated"
          /\ \E c \in DOMAIN stdout[n].dx :
                LET s == stdout[n - 1].dx[c] + stdout[n + 1].dx[c]
                IN  s < 0 /\ s % 2 = 1

(***************************************************************************)
(* C7.  A forwarded vector-less frame whose forwarded neighbours both      *)
(* carry vectors is on stdout with origin=interpolated, directly after its *)
(* predecessor's block and directly before its successor's block, as soon  *)
(* as the successor has been delivered and not before.                     *)
(***************************************************************************)
C7_MiddleInterpolated ==
    Arranged =>
        /\ \A k \in 1..Len(fwd) :
              Middle(k) =>
                  \E n \in 2..(Len(stdout) - 1) :
                      /\ stdout[n].frame_index = fwd[k].FrameIndex
                      /\ stdout[n].origin = "interpolated"
                      /\ stdout[n - 1].frame_index = fwd[k - 1].FrameIndex
                      /\ stdout[n + 1].frame_index = fwd[k + 1].FrameIndex
        /\ (pc = "loop" /\ Len(fwd) >= 2 /\ ~HasVec(Len(fwd)))
              => Emissions(fwd[Len(fwd)].FrameIndex) = {}

\* The window p, m, n has just been completed by the call for n.
C7_Witness ==
    /\ Arranged /\ pc = "loop"
    /\ Len(fwd) = 3 /\ Middle(2)
    /\ Len(stdout) = 3
    /\ stdout[2].origin = "interpolated"
    /\ ~AllZero(stdout[2])

(***************************************************************************)
(* C8 (as claimed).  In every arranged block on stdout, whatever its       *)
(* origin, a cell with occupancy 0 has dx = 0 and dy = 0.                  *)
(***************************************************************************)
C8_EmptyCellsZero ==
    Arranged =>
        \A n \in 1..Len(stdout) :
            \A c \in DOMAIN stdout[n].occupancy :
                stdout[n].occupancy[c] = 0 =>
                    stdout[n].dx[c] = 0 /\ stdout[n].dy[c] = 0

(***************************************************************************)
(* C8 (amended).  In every arranged block on stdout with origin=video, a   *)
(* cell with occupancy 0 has dx = 0 and dy = 0.                            *)
(***************************************************************************)
C8_EmptyCellsZeroVideo ==
    Arranged =>
        \A n \in 1..Len(stdout) :
            stdout[n].origin = "video" =>
                \A c \in DOMAIN stdout[n].occupancy :
                    stdout[n].occupancy[c] = 0 =>
                        stdout[n].dx[c] = 0 /\ stdout[n].dy[c] = 0

\* A video block with an empty cell next to a cell holding a displacement,
\* on a stdout that also holds an interpolated block.
C8_Witness ==
    /\ Arranged
    /\ \E n \in 1..Len(stdout) :
          /\ stdout[n].origin = "video"
          /\ \E c, d \in DOMAIN stdout[n].occupancy :
                /\ stdout[n].occupancy[c] = 0
                /\ stdout[n].occupancy[d] = 1 /\ stdout[n].dx[d] # 0
    /\ \E n \in 1..Len(stdout) : stdout[n].origin = "interpolated"

(***************************************************************************)
(* C9 (as claimed).  The pts printed in the header of every arranged block *)
(* is the decoder pts of its frame minus the decoder pts of the frame of   *)
(* the first block on stdout.                                              *)
(***************************************************************************)
C9_RebasedToFirst ==
    Arranged =>
        \A n \in 1..Len(stdout) :
            stdout[n].pts =
                DecoderPts(stdout[n].frame_index) - DecoderPts(stdout[1].frame_index)

(***************************************************************************)
(* C10.  A forwarded vector-less frame that is not the middle of an        *)
(* interpolation window is only ever emitted as it stands (origin=video,   *)
(* all dx and dy zero), and it has been emitted once main has returned     *)
(* after the flush.                                                        *)
(***************************************************************************)
C10_EmptyEmittedAsIs ==
    Arranged =>
        \A k \in 1..Len(fwd) :
            (~HasVec(k) /\ ~Middle(k)) =>
                /\ \A n \in Emissions(fwd[k].FrameIndex) :
                      stdout[n].origin = "video" /\ AllZero(stdout[n])
                /\ pc = "exit0" => Emissions(fwd[k].FrameIndex) # {}

\* A run of two vector-less frames between frames with vectors, all four
\* emitted.
C10_Witness ==
    /\ Arranged
    /\ Len(fwd) = 4 /\ HasVec(1) /\ ~HasVec(2) /\ ~HasVec(3) /\ HasVec(4)
    /\ Len(stdout) = 4
    /\ ~AllZero(stdout[1]) /\ AllZero(stdout[2]) /\ AllZero(stdout[3])

(***************************************************************************)
(* Vocabulary of the properties of a single call.                          *)
(***************************************************************************)
InShape(f, c) == c \in Cells(f.Shape)

Interior(f, c) ==
    /\ 1 <= c[1] /\ c[1] <= f.Shape[1] - 2
    /\ 1 <= c[2] /\ c[2] <= f.Shape[2] - 2

Occupied(f, c) == InShape(f, c) /\ f.occupancy[c] # 0

\* c lies between two occupied cells of f, left and right or above and below.
Bracketed(f, c) ==
    \/ Occupied(f, <<c[1], c[2] - 1>>) /\ Occupied(f, <<c[1], c[2] + 1>>)
    \/ Occupied(f, <<c[1] - 1, c[2]>>) /\ Occupied(f, <<c[1] + 1, c[2]>>)

Clamp(v, lo, hi) == IF v < lo THEN lo ELSE IF v > hi THEN hi ELSE v

NonZeroDisplacement(mv) == mv.dst_x - mv.src_x # 0 \/ mv.dst_y - mv.src_y # 0

(***************************************************************************)
(* C11 (as claimed).  A cell the second sweep fills lies between two cells *)
(* that were occupied when the second sweep began (direct cells or cells   *)
(* filled by the first sweep); the cells the first sweep fills have such   *)
(* donors by construction.                                                 *)
(***************************************************************************)
C11_DonorsBeforeSecondSweep ==
    [][(pc = "sweep1" /\ pc' = "sweep2") =>
          \A c \in Cells(curInCall.Shape) :
              (curInCall.occupancy[c] = 0 /\ curInCall'.occupancy[c] = 2)
                  => Bracketed(curInCall, c)]_vars

(***************************************************************************)
(* C11 (amended).  After either sweep every cell with occupancy 2 lies     *)
(* between two cells of non-zero occupancy, left and right or above and    *)
(* below (the donors may have been filled earlier in the same sweep).      *)
(***************************************************************************)
C11_FilledIsBracketed ==
    pc \in {"sweep1", "sweep2"} =>
        \A c \in Cells(curInCall.Shape) :
            curInCall.occupancy[c] = 2 => Bracketed(curInCall, c)

\* 4 x 4 grid: (2,1) is filled by the first sweep after (1,1) was visited,
\* so (1,1) is filled by the second sweep, and then (1,2), whose only
\* bracketing pair is (1,1) and (1,3).
C11_Witness ==
    /\ pc = "sweep2"
    /\ curInCall.Shape = <<4, 4>>
    /\ curInCall.occupancy[<<2, 1>>] = 2
    /\ curInCall.occupancy[<<1, 1>>] = 2 /\ curInCall.occupancy[<<1, 0>>] = 0
    /\ curInCall.occupancy[<<1, 2>>] = 2 /\ curInCall.occupancy[<<0, 2>>] = 0

C13_ClampContainment ==
    pc = "binned" =>
        \A k \in 1..Len(motionVectors) :
            LET c == BinCell(curInCall, motionVectors[k])
            IN  /\ 0 <= c[1] /\ c[1] < curInCall.Shape[1]
                /\ 0 <= c[2] /\ c[2] < curInCall.Shape[2]

(***************************************************************************)
(* C15.  Raw mode: the header reports the number of vectors of the frame,  *)
(* and the rows below it are the vectors with a non-zero displacement, in  *)
(* input order; no row has dx = 0 and dy = 0.                              *)
(***************************************************************************)
C15_RawSuppression ==
    pc = "rawdone" =>
        LET kept == SelectSeq(motionVectors, NonZeroDisplacement)
            blk == stdout[Len(stdout)]
        IN  /\ Len(stdout) = 1
            /\ blk.output_type = "raw"
            /\ blk.shape = <<Len(motionVectors), 4>>
            /\ Len(blk.rows) = Len(kept)
            /\ \A k \in 1..Len(kept) :
                  blk.rows[k] = <<kept[k].dst_x, kept[k].dst_y,
                                  kept[k].dst_x - kept[k].src_x,
                                  kept[k].dst_y - kept[k].src_y>>
            /\ \A k \in 1..Len(blk.rows) : blk.rows[k][3] # 0 \/ blk.rows[k][4] # 0

\* Four vectors, two of them with zero displacement: shape=4x4 and 2 rows.
C15_Witness ==
    /\ pc = "rawdone"
    /\ Len(motionVectors) = 4
    /\ stdout[1].shape = <<4, 4>>
    /\ Len(stdout[1].rows) = 2

(***************************************************************************)
(* C16 (as claimed).  In a grid of at least one row and one column, each   *)
(* vector of the frame marks the cell at row clamp(dst_y / grid_step, 0,   *)
(* rows - 1) and column clamp(dst_x / grid_step, 0, cols - 1), the         *)
(* division being that of signed integers.                                 *)
(***************************************************************************)
C16_BinningCell ==
    (pc = "binned" /\ curInCall.Shape[1] >= 1 /\ curInCall.Shape[2] >= 1) =>
        \A k \in 1..Len(motionVectors) :
            LET mv == motionVectors[k]
                g == curInCall.GridStep
                i == Clamp(IF mv.dst_y >= 0 THEN mv.dst_y \div g ELSE -((-mv.dst_y) \div g),
                           0, curInCall.Shape[1] - 1)
                j == Clamp(IF mv.dst_x >= 0 THEN mv.dst_x \div g ELSE -((-mv.dst_x) \div g),
                           0, curInCall.Shape[2] - 1)
            IN  curInCall.occupancy[<<i, j>>] = 1

(***************************************************************************)
(* Vocabulary of the properties of the flush and of the buffer.            *)
(***************************************************************************)
\* This step pushed the flush record (frame index -1) onto prev.
FlushStep ==
    /\ Len(prev') = Len(prev) + 1
    /\ prev'[Len(prev')].FrameIndex = -1

NotPrinted(f) == ~f.Printed

\* This step is a call of the arranged pipeline for a frame without vectors.
EmptyFrameStep ==
    /\ Arranged /\ pc = "loop" /\ pc' = "loop"
    /\ Len(fwd') = Len(fwd) + 1
    /\ fwd'[Len(fwd')].mvs = <<>>

(***************************************************************************)
(* C14.  The step that ends the run with exit status 1 writes nothing to   *)
(* stdout and leaves prev as it is (no flush), and nothing happens after   *)
(* it; the flush record is pushed in exactly the steps that end a run in   *)
(* arranged mode at end-of-stream, with exit status 0.                     *)
(***************************************************************************)
C14_ErrorSkipsFlush ==
    [][/\ pc' = "exit1" => (stdout' = stdout /\ prev' = prev)
       /\ pc = "exit1" => (stdout' = stdout /\ prev' = prev /\ pc' = "exit1")
       /\ pc = "exit0" => (stdout' = stdout /\ prev' = prev /\ pc' = "exit0")
       /\ FlushStep <=> (Arranged /\ pc = "loop" /\ pc' = "exit0")]_vars

\* The run ended with an error while a frame without vectors was buffered
\* unprinted behind a printed one.
C14_Witness ==
    /\ Arranged /\ pc = "exit1"
    /\ Len(prev) = 2 /\ prev[1].Printed /\ ~prev[2].Printed
    /\ Len(stdout) = 1 /\ Len(fwd) = 2

(***************************************************************************)
(* C17.  A call of the arranged pipeline for a real frame with an empty    *)
(* vector list writes nothing to stdout, leaves the grids of prev as they  *)
(* are and appends cur (empty, unprinted) at the end of prev.              *)
(***************************************************************************)
C17_EmptyFrameOnlyAppends ==
    [][EmptyFrameStep =>
          /\ stdout' = stdout
          /\ FirstPts' = FirstPts
          /\ Len(prev') = Len(prev) + 1
          /\ SubSeq(prev', 1, Len(prev)) = prev
          /\ prev'[Len(prev')].FrameIndex = frameIndex'
          /\ prev'[Len(prev')].Empty
          /\ ~prev'[Len(prev')].Printed]_vars

\* The buffer after such a call on a buffer that held one printed frame
\* and, before it, output of three frames.
C17_Witness ==
    /\ Arranged /\ pc = "loop"
    /\ Len(fwd) = 4 /\ ~HasVec(4) /\ HasVec(3)
    /\ Len(stdout) = 3
    /\ Len(prev) = 2 /\ prev[1].Printed /\ prev[2].Empty /\ ~prev[2].Printed

(***************************************************************************)
(* C18 (as claimed).  After the flush has returned prev is empty.          *)
(***************************************************************************)
C18_FlushEmptiesPrev ==
    (Arranged /\ pc = "exit0") => prev = <<>>

(***************************************************************************)
(* C18 (amended).  The flush writes the blocks of the unprinted grids of   *)
(* prev in buffer order and nothing else; prev keeps its grids, all marked *)
(* printed, and gains the unprinted flush record at its end.               *)
(***************************************************************************)
C18_FlushPrintsAndKeeps ==
    [][(Arranged /\ pc = "loop" /\ pc' = "exit0") =>
          LET pending == SelectSeq(prev, NotPrinted)
          IN  /\ Len(stdout') = Len(stdout) + Len(pending)
              /\ SubSeq(stdout', 1, Len(stdout)) = stdout
              /\ \A k \in 1..Len(pending) :
                    stdout'[Len(stdout) + k].frame_index = pending[k].FrameIndex
              /\ Len(prev') = Len(prev) + 1
              /\ \A i \in 1..Len(prev) : prev'[i] = [prev[i] EXCEPT !.Printed = TRUE]
              /\ prev'[Len(prev')].FrameIndex = -1
              /\ ~prev'[Len(prev')].Printed]_vars

\* After the flush of a buffer that held a printed frame and two unprinted
\* frames without vectors.
C18_Witness ==
    /\ Arranged /\ pc = "exit0"
    /\ Len(prev) = 4
    /\ ~prev[1].Empty /\ prev[2].Empty /\ prev[3].Empty
    /\ prev[2].Printed /\ prev[3].Printed
    /\ Len(stdout) = 3

(***************************************************************************)
(* C19.  Between calls of the arranged pipeline and before the flush: the  *)
(* grids of prev behind the first have no decoder vectors, are unprinted   *)
(* and have origin=video; the first grid is printed if and only if it      *)
(* carries decoder vectors; after a call with vectors prev is exactly      *)
(* [cur] with cur printed.                                                 *)
(***************************************************************************)
C19_BufferStructure ==
    (Arranged /\ pc = "loop") =>
        /\ \A i \in 2..Len(prev) :
              /\ prev[i].Empty /\ prev[i].occupancy = [c \in DOMAIN prev[i].occupancy |-> 0]
              /\ ~prev[i].Printed
              /\ prev[i].Origin = "video"
        /\ Len(prev) >= 1 =>
              /\ prev[1].Printed <=> ~prev[1].Empty
              /\ prev[1].Origin = "video"
        /\ (Len(fwd) >= 1 /\ HasVec(Len(fwd))) =>
              /\ Len(prev) = 1
              /\ prev[1].FrameIndex = fwd[Len(fwd)].FrameIndex
              /\ prev[1].Printed
              /\ ~prev[1].Empty

\* Right after an interpolation: prev is [cur], printed, and the block
\* before cur's is the interpolated one.
C19_Witness ==
    /\ Arranged /\ pc = "loop"
    /\ Len(fwd) = 4 /\ Middle(3)
    /\ Len(prev) = 1 /\ prev[1].Printed /\ prev[1].FrameIndex = 4
    /\ Len(stdout) = 4 /\ stdout[3].origin = "interpolated"

(***************************************************************************)
(* C20.  No header with frame_index=-1 is ever written to stdout.          *)
(***************************************************************************)
C20_SentinelNeverEmitted ==
    \A n \in 1..Len(stdout) : stdout[n].frame_index # -1

\* After the flush: the flush record sits at the end of prev, binned from
\* the vector list of the last frame, unprinted.
C20_Witness ==
    /\ Arranged /\ pc = "exit0"
    /\ Len(stdout) >= 2
    /\ prev[Len(prev)].FrameIndex = -1
    /\ ~prev[Len(prev)].Empty
    /\ ~prev[Len(prev)].Printed
    /\ motionVectors # <<>>

====
